---------------------------- MODULE Spec2Model ----------------------------
(***************************************************************************)
(* Model of the patient risk scoring client (src/main.js).                 *)
(*                                                                         *)
(* main() pages through GET /patients with fetchAllPatients, classifies    *)
(* every record into three Sets, sorts them into the submission payload    *)
(* and POSTs it with submitResults.  Every request goes through            *)
(* fetchWithRetry.  The program has one thread of control; an action of    *)
(* the model is one run of that thread from one await to the next.         *)
(*                                                                         *)
(* Strings are sequences of one-character strings, so that split, parseInt,*)
(* parseFloat and the default Array.prototype.sort order are computed the  *)
(* way the engine computes them.  Numbers are held in tenths (98.6 is 986).*)
(***************************************************************************)
EXTENDS Integers, Sequences, FiniteSets

VARIABLES
    pc,            \* position of main(): "page", "pageSleep", "classify", "submit", "done", "exit1"
    page,          \* fetchAllPatients: let page
    hasNext,       \* fetchAllPatients: let hasNext
    allPatients,   \* fetchAllPatients: let allPatients, then main's const allPatients
    fPc,           \* position of the running fetchWithRetry call: "idle", "await", "sleep", "returned", "failed"
    url,           \* the url of the running fetchWithRetry call
    attempt,       \* fetchWithRetry: let attempt
    result,        \* the value the last fetchWithRetry call returned
    idx,           \* main: position of the for..of loop over allPatients
    highRiskPatients,    \* main: Set, as its insertion-ordered list of members
    feverPatients,       \* main: Set
    dataQualityIssues,   \* main: Set
    submissionPayload,   \* main: const submissionPayload
    scored,        \* main: bpResult, tempResult, ageResult and totalRiskScore of the
                   \* latest record the loop has scored
    exitCode,      \* process exit status: -1 while running, 0, or 1 from process.exit(1)
    \* ---- history of the run, read by the properties only ----
    reqs,          \* requests the running fetchWithRetry call has issued
    lastOutcome,   \* what the latest attempt of the running call received
    onlyRetryable, \* every attempt of the running call so far failed with a retryable cause
    waits,         \* the backoff sleeps of the running call, in order
    totalReqs,     \* requests issued in the whole run
    reqOrder,      \* the urls requested in the run, in order of their first request
    pagesSeen,     \* the envelopes fetchAllPatients received, in order
    pageWaits,     \* the REQUEST_DELAY_MS sleeps of the run, as the page each followed
    calls,         \* fetchWithRetry calls started in the run
    failedAt,      \* what made main exit with 1: "none", "page", "submit" or "result"
    received,      \* the body of the latest response of the running call
    outcomes,      \* what each attempt of the running call received (kept when logging)
    logging        \* whether outcomes is kept

vars == <<pc, page, hasNext, allPatients, fPc, url, attempt, result, idx,
          highRiskPatients, feverPatients, dataQualityIssues, submissionPayload,
          scored, exitCode, reqs, lastOutcome, onlyRetryable, waits, totalReqs, reqOrder,
          pagesSeen, pageWaits, calls, failedAt, received, outcomes, logging>>

callHist    == <<reqs, lastOutcome, onlyRetryable, waits, received, outcomes>>
runHist     == <<totalReqs, reqOrder, calls, logging>>
fetchVars   == <<fPc, url, attempt, result, callHist, runHist>>
pageVars    == <<page, hasNext, allPatients, pagesSeen, pageWaits>>
classVars   == <<idx, highRiskPatients, feverPatients, dataQualityIssues, submissionPayload,
                 scored>>

(***************************************************************************)
(* Configuration                                                           *)
(***************************************************************************)
MAX_RETRIES == 5
INITIAL_RETRY_DELAY_MS == 1000
REQUEST_DELAY_MS == 250
RetryableStatuses == {429, 500, 503}

(***************************************************************************)
(* Bounds of the model                                                     *)
(***************************************************************************)
MaxPage == 2        \* the source is asked for at most this many pages
MaxRecs == 3        \* records classified when classification is checked on its own

(***************************************************************************)
(* Strings                                                                 *)
(***************************************************************************)
Range(s) == {s[i] : i \in 1..Len(s)}

Digits == {"0", "1", "2", "3", "4", "5", "6", "7", "8", "9"}

DigitVal(c) ==
    CASE c = "0" -> 0 [] c = "1" -> 1 [] c = "2" -> 2 [] c = "3" -> 3 [] c = "4" -> 4
      [] c = "5" -> 5 [] c = "6" -> 6 [] c = "7" -> 7 [] c = "8" -> 8 [] c = "9" -> 9

\* UTF-16 code unit of the characters the model uses
CharCode(c) ==
    CASE c \in Digits -> 48 + DigitVal(c)
      [] c = " " -> 32 [] c = "+" -> 43 [] c = "-" -> 45 [] c = "." -> 46 [] c = "/" -> 47
      [] c = "A" -> 65 [] c = "N" -> 78 [] c = "P" -> 80
      [] c = "a" -> 97 [] c = "d" -> 100 [] c = "e" -> 101 [] c = "f" -> 102
      [] c = "i" -> 105 [] c = "l" -> 108 [] c = "n" -> 110 [] c = "p" -> 112
      [] c = "u" -> 117 [] c = "x" -> 120

(***************************************************************************)
(* JavaScript values of a record's fields: undefined (absent), null, a     *)
(* number (in tenths) or a string.                                         *)
(***************************************************************************)
Undefined == [t |-> "undefined", n |-> 0, s |-> <<>>]
Null      == [t |-> "null", n |-> 0, s |-> <<>>]
Num(n10)  == [t |-> "number", n |-> n10, s |-> <<>>]
Str(s)    == [t |-> "string", n |-> 0, s |-> s]

NaN       == [isNaN |-> TRUE, val |-> 0]
Number(v) == [isNaN |-> FALSE, val |-> v]

\* the string with its leading white space removed
RECURSIVE TrimStart(_)
TrimStart(s) == IF Len(s) > 0 /\ s[1] = " " THEN TrimStart(Tail(s)) ELSE s

\* length of the longest prefix of s made of digits
RECURSIVE DigitPrefixLen(_)
DigitPrefixLen(s) ==
    IF Len(s) > 0 /\ s[1] \in Digits THEN 1 + DigitPrefixLen(Tail(s)) ELSE 0

\* value of a string of digits
RECURSIVE DigitsValue(_)
DigitsValue(s) ==
    IF Len(s) = 0 THEN 0
    ELSE 10 * DigitsValue(SubSeq(s, 1, Len(s) - 1)) + DigitVal(s[Len(s)])

\* decimal digits of a natural number
RECURSIVE NatToString(_)
NatToString(n) ==
    LET d == <<"0", "1", "2", "3", "4", "5", "6", "7", "8", "9">>
    IN IF n < 10 THEN <<d[n + 1]>> ELSE Append(NatToString(n \div 10), d[(n % 10) + 1])

\* ToString(value); a number held in tenths prints as "45" or "98.6"
JSToString(v) ==
    CASE v.t = "string" -> v.s
      [] v.t = "number" ->
            LET a == IF v.n < 0 THEN 0 - v.n ELSE v.n
                body == NatToString(a \div 10) \o
                        (IF a % 10 = 0 THEN <<>> ELSE <<".">> \o NatToString(a % 10))
            IN IF v.n < 0 THEN <<"-">> \o body ELSE body
      [] v.t = "null" -> <<"n", "u", "l", "l">>
      [] OTHER -> <<"u", "n", "d", "e", "f", "i", "n", "e", "d">>

\* parseInt(string, 10): leading white space, a sign, then the longest run of
\* digits; whatever follows is ignored; no digit gives NaN
parseIntString(s) ==
    LET t == TrimStart(s)
        signed == Len(t) > 0 /\ t[1] \in {"+", "-"}
        neg == Len(t) > 0 /\ t[1] = "-"
        u == IF signed THEN Tail(t) ELSE t
        k == DigitPrefixLen(u)
        m == DigitsValue(SubSeq(u, 1, k))
    IN IF k = 0 THEN NaN ELSE Number(IF neg THEN 0 - m ELSE m)

parseInt(v) == parseIntString(JSToString(v))

\* parseFloat(string): leading white space, a sign, digits, and a fraction;
\* whatever follows is ignored.  The value is in tenths: fraction digits after
\* the first are dropped, which no comparison with 99.6 or 101.0 can tell.
parseFloatString(s) ==
    LET t == TrimStart(s)
        signed == Len(t) > 0 /\ t[1] \in {"+", "-"}
        neg == Len(t) > 0 /\ t[1] = "-"
        u == IF signed THEN Tail(t) ELSE t
        k == DigitPrefixLen(u)
        rest == SubSeq(u, k + 1, Len(u))
        dot == Len(rest) > 0 /\ rest[1] = "."
        frac == IF dot THEN Tail(rest) ELSE <<>>
        j == DigitPrefixLen(frac)
        m == 10 * DigitsValue(SubSeq(u, 1, k)) + (IF j > 0 THEN DigitVal(frac[1]) ELSE 0)
    IN IF k = 0 /\ j = 0 THEN NaN ELSE Number(IF neg THEN 0 - m ELSE m)

parseFloat(v) ==
    IF v.t = "number" THEN Number(v.n) ELSE parseFloatString(JSToString(v))

\* String.prototype.split with a one-character separator
RECURSIVE split(_, _)
split(s, sep) ==
    IF \A i \in 1..Len(s) : s[i] # sep THEN <<s>>
    ELSE LET i == CHOOSE i \in 1..Len(s) :
                      s[i] = sep /\ \A j \in 1..(i - 1) : s[j] # sep
         IN <<SubSeq(s, 1, i - 1)>> \o split(SubSeq(s, i + 1, Len(s)), sep)

(***************************************************************************)
(* Risk scoring functions                                                  *)
(***************************************************************************)
ScoreResult(score, isInvalid) == [score |-> score, isInvalid |-> isInvalid]

calculateBPRiskStageTwoFirst(bpString) ==
    IF bpString.t # "string" \/ Len(bpString.s) = 0 THEN ScoreResult(0, TRUE)
    ELSE LET parts == split(bpString.s, "/")
         IN IF Len(parts) # 2 THEN ScoreResult(0, TRUE)
            ELSE LET systolic == parseIntString(parts[1])
                     diastolic == parseIntString(parts[2])
                     S == systolic.val
                     D == diastolic.val
                 IN IF systolic.isNaN \/ diastolic.isNaN THEN ScoreResult(0, TRUE)
                    ELSE IF (S >= 130 /\ S <= 139) \/ (D >= 80 /\ D <= 89)
                         THEN ScoreResult(2, FALSE)
                    ELSE IF S >= 140 \/ D >= 90 THEN ScoreResult(3, FALSE)
                    ELSE IF (S >= 120 /\ S <= 129) /\ D < 80 THEN ScoreResult(1, FALSE)
                    ELSE ScoreResult(0, FALSE)
calculateBPRiskStageTwoNeedsBoth(bpString) ==
    IF bpString.t # "string" \/ Len(bpString.s) = 0 THEN ScoreResult(0, TRUE)
    ELSE LET parts == split(bpString.s, "/")
         IN IF Len(parts) # 2 THEN ScoreResult(0, TRUE)
            ELSE LET systolic == parseIntString(parts[1])
                     diastolic == parseIntString(parts[2])
                     S == systolic.val
                     D == diastolic.val
                 IN IF systolic.isNaN \/ diastolic.isNaN THEN ScoreResult(0, TRUE)
                    ELSE IF S >= 140 \/ D >= 90 THEN ScoreResult(3, FALSE)
                    ELSE IF (S >= 130 /\ S <= 139) /\ (D >= 80 /\ D <= 89)
                         THEN ScoreResult(2, FALSE)
                    ELSE IF (S >= 120 /\ S <= 129) /\ D < 80 THEN ScoreResult(1, FALSE)
                    ELSE ScoreResult(0, FALSE)
calculateBPRiskCrisis(bpString) ==
    IF bpString.t # "string" \/ Len(bpString.s) = 0 THEN ScoreResult(0, TRUE)
    ELSE LET parts == split(bpString.s, "/")
         IN IF Len(parts) # 2 THEN ScoreResult(0, TRUE)
            ELSE LET systolic == parseIntString(parts[1])
                     diastolic == parseIntString(parts[2])
                     S == systolic.val
                     D == diastolic.val
                 IN IF systolic.isNaN \/ diastolic.isNaN THEN ScoreResult(0, TRUE)
                    ELSE IF S >= 140 /\ D >= 90 THEN ScoreResult(4, FALSE)
                    ELSE IF S >= 140 \/ D >= 90 THEN ScoreResult(3, FALSE)
                    ELSE IF (S >= 130 /\ S <= 139) \/ (D >= 80 /\ D <= 89)
                         THEN ScoreResult(2, FALSE)
                    ELSE IF (S >= 120 /\ S <= 129) /\ D < 80 THEN ScoreResult(1, FALSE)
                    ELSE ScoreResult(0, FALSE)
calculateBPRisk(bpString) ==
    IF bpString.t # "string" \/ Len(bpString.s) = 0 THEN ScoreResult(0, TRUE)
    ELSE LET parts == split(bpString.s, "/")
         IN IF Len(parts) # 2 THEN ScoreResult(0, TRUE)
            ELSE LET systolic == parseIntString(parts[1])
                     diastolic == parseIntString(parts[2])
                     S == systolic.val
                     D == diastolic.val
                 IN IF systolic.isNaN \/ diastolic.isNaN THEN ScoreResult(0, TRUE)
                    ELSE IF S >= 140 \/ D >= 90 THEN ScoreResult(3, FALSE)
                    ELSE IF (S >= 130 /\ S <= 139) \/ (D >= 80 /\ D <= 89)
                         THEN ScoreResult(2, FALSE)
                    ELSE IF (S >= 120 /\ S <= 129) /\ D < 80 THEN ScoreResult(1, FALSE)
                    ELSE ScoreResult(0, FALSE)

calculateTempRiskAbove(tempValue) ==
    IF tempValue.t \in {"null", "undefined"} THEN ScoreResult(0, TRUE)
    ELSE LET temp == parseFloat(tempValue)
         IN IF temp.isNaN THEN ScoreResult(0, TRUE)
            ELSE IF temp.val >= 1010 THEN ScoreResult(2, FALSE)
            ELSE IF temp.val > 996 THEN ScoreResult(1, FALSE)
            ELSE ScoreResult(0, FALSE)
calculateTempRisk(tempValue) ==
    IF tempValue.t \in {"null", "undefined"} THEN ScoreResult(0, TRUE)
    ELSE LET temp == parseFloat(tempValue)
         IN IF temp.isNaN THEN ScoreResult(0, TRUE)
            ELSE IF temp.val >= 1010 THEN ScoreResult(2, FALSE)
            ELSE IF temp.val >= 996 THEN ScoreResult(1, FALSE)
            ELSE ScoreResult(0, FALSE)

calculateAgeRiskFrom65(ageValue) ==
    IF ageValue.t \in {"null", "undefined"} THEN ScoreResult(0, TRUE)
    ELSE LET age == parseInt(ageValue)
         IN IF age.isNaN THEN ScoreResult(0, TRUE)
            ELSE IF age.val >= 65 THEN ScoreResult(2, FALSE)
            ELSE IF age.val >= 40 THEN ScoreResult(1, FALSE)
            ELSE ScoreResult(0, FALSE)
calculateAgeRisk(ageValue) ==
    IF ageValue.t \in {"null", "undefined"} THEN ScoreResult(0, TRUE)
    ELSE LET age == parseInt(ageValue)
         IN IF age.isNaN THEN ScoreResult(0, TRUE)
            ELSE IF age.val > 65 THEN ScoreResult(2, FALSE)
            ELSE IF age.val >= 40 THEN ScoreResult(1, FALSE)
            ELSE ScoreResult(0, FALSE)

(***************************************************************************)
(* Set, Array.from and Array.prototype.sort                                *)
(***************************************************************************)
\* Set.prototype.add: a Set keeps its members in insertion order, once each
SetAddAsPush(set, v) == Append(set, v)
SetAdd(set, v) == IF v \in Range(set) THEN set ELSE Append(set, v)

ArrayFrom(set) == set

\* a < b as the engine compares two strings: by code unit, a proper prefix first
RECURSIVE StringLess(_, _)
StringLess(a, b) ==
    IF Len(b) = 0 THEN FALSE
    ELSE IF Len(a) = 0 THEN TRUE
    ELSE IF CharCode(a[1]) # CharCode(b[1]) THEN CharCode(a[1]) < CharCode(b[1])
    ELSE StringLess(Tail(a), Tail(b))

\* the default comparison of sort(): by the elements' string forms
SortCompare(x, y) ==
    IF StringLess(JSToString(x), JSToString(y)) THEN 0 - 1
    ELSE IF StringLess(JSToString(y), JSToString(x)) THEN 1
    ELSE 0

\* x put into the sorted array s, after the elements that do not come after it
RECURSIVE SortInsert(_, _)
SortInsert(s, x) ==
    IF Len(s) = 0 THEN <<x>>
    ELSE IF SortCompare(s[Len(s)], x) <= 0 THEN Append(s, x)
    ELSE Append(SortInsert(SubSeq(s, 1, Len(s) - 1), x), s[Len(s)])

\* Array.prototype.sort() without a comparator (a stable sort)
sortOmitted(a) == a
RECURSIVE sort(_)
sort(a) ==
    IF Len(a) = 0 THEN <<>>
    ELSE SortInsert(sort(SubSeq(a, 1, Len(a) - 1)), a[Len(a)])

(***************************************************************************)
(* Classification of one record (the body of main's for..of loop)          *)
(***************************************************************************)
\* ToBoolean of a field value
Truthy(v) ==
    CASE v.t = "string" -> Len(v.s) > 0
      [] v.t = "number" -> v.n # 0
      [] OTHER -> FALSE

NullPatient == [isNull |-> TRUE, patient_id |-> Undefined, blood_pressure |-> Undefined,
                temperature |-> Undefined, age |-> Undefined]

Patient(id, bp, temp, age) ==
    [isNull |-> FALSE, patient_id |-> id, blood_pressure |-> bp,
     temperature |-> temp, age |-> age]

\* !patient || !patient.patient_id
SkippedOnlyNull(patient) == patient.isNull
Skipped(patient) == patient.isNull \/ ~Truthy(patient.patient_id)

Sets(high, fever, dq) == [highRisk |-> high, fever |-> fever, dataQuality |-> dq]

ClassifyPatientAboveFour(sets, patient) ==
    IF Skipped(patient) THEN sets
    ELSE LET bpResult == calculateBPRisk(patient.blood_pressure)
             tempResult == calculateTempRisk(patient.temperature)
             ageResult == calculateAgeRisk(patient.age)
             totalRiskScore == bpResult.score + tempResult.score + ageResult.score
             tempNumber == parseFloat(patient.temperature)
         IN Sets(IF totalRiskScore > 4
                     THEN SetAdd(sets.highRisk, patient.patient_id) ELSE sets.highRisk,
                 IF ~tempResult.isInvalid /\ ~tempNumber.isNaN /\ tempNumber.val >= 996
                     THEN SetAdd(sets.fever, patient.patient_id) ELSE sets.fever,
                 IF bpResult.isInvalid \/ tempResult.isInvalid \/ ageResult.isInvalid
                     THEN SetAdd(sets.dataQuality, patient.patient_id)
                     ELSE sets.dataQuality)
ClassifyPatient(sets, patient) ==
    IF Skipped(patient) THEN sets
    ELSE LET bpResult == calculateBPRisk(patient.blood_pressure)
             tempResult == calculateTempRisk(patient.temperature)
             ageResult == calculateAgeRisk(patient.age)
             totalRiskScore == bpResult.score + tempResult.score + ageResult.score
             tempNumber == parseFloat(patient.temperature)
         IN Sets(IF totalRiskScore >= 4
                     THEN SetAdd(sets.highRisk, patient.patient_id) ELSE sets.highRisk,
                 IF ~tempResult.isInvalid /\ ~tempNumber.isNaN /\ tempNumber.val >= 996
                     THEN SetAdd(sets.fever, patient.patient_id) ELSE sets.fever,
                 IF bpResult.isInvalid \/ tempResult.isInvalid \/ ageResult.isInvalid
                     THEN SetAdd(sets.dataQuality, patient.patient_id)
                     ELSE sets.dataQuality)

Payload(sets) ==
    [high_risk_patients  |-> sort(ArrayFrom(sets.highRisk)),
     fever_patients      |-> sort(ArrayFrom(sets.fever)),
     data_quality_issues |-> sort(ArrayFrom(sets.dataQuality))]

NoPayload == [high_risk_patients |-> <<>>, fever_patients |-> <<>>,
              data_quality_issues |-> <<>>]

\* the four consts of one turn of the loop: the three ScoreResults and their sum
ScoreFields(patient) ==
    LET bp == calculateBPRisk(patient.blood_pressure)
        temp == calculateTempRisk(patient.temperature)
        age == calculateAgeRisk(patient.age)
    IN [bpResult |-> bp, tempResult |-> temp, ageResult |-> age,
        totalRiskScore |-> bp.score + temp.score + age.score]

\* before the loop has scored a record
NotScored ==
    [bpResult |-> ScoreResult(0 - 1, FALSE), tempResult |-> ScoreResult(0 - 1, FALSE),
     ageResult |-> ScoreResult(0 - 1, FALSE), totalRiskScore |-> 0 - 1]

(***************************************************************************)
(* The inputs of the model                                                 *)
(***************************************************************************)
\* identifiers: "p1" < "p10" < "p2" in the order of sort()
IdP1  == Str(<<"p", "1">>)
IdP10 == Str(<<"p", "1", "0">>)
IdP2  == Str(<<"p", "2">>)
Ids == {IdP1, IdP10, IdP2}

\* blood pressure, temperature and age of the records classified
\* high-risk and fever (3+2+2); a data quality issue only (invalid BP, 0+0+0);
\* a data quality issue and high-risk (3+0+2, no temperature)
OrderProfiles ==
    { <<Str(<<"1", "5", "0", "/", "9", "5">>), Num(1030), Num(700)>>,
      <<Str(<<"N", "/", "A">>), Num(980), Num(300)>>,
      <<Str(<<"1", "5", "0", "/", "9", "5">>), Null, Num(700)>> }

\* and fever only, from numeric strings (0+1+0)
Profiles ==
    OrderProfiles \cup
    { <<Str(<<"1", "1", "0", "/", "7", "0">>), Str(<<"9", "9", ".", "6">>),
        Str(<<"3", "0">>)>> }

\* the records whose order of arrival is permuted
OrderRecords == {Patient(id, f[1], f[2], f[3]) : id \in Ids, f \in OrderProfiles}

\* the records classified: one identifier with every profile, the two others
\* with the profiles that have a temperature, a record without patient_id, one
\* with an empty patient_id, a null record, and the two records on either side
\* of the thresholds (2+1+1 with 99.6, 2+0+1 with 99.5)
Records ==
    {Patient(IdP1, f[1], f[2], f[3]) : f \in Profiles}
    \cup {Patient(id, f[1], f[2], f[3]) :
              id \in {IdP2, IdP10}, f \in {g \in OrderProfiles : g[2] # Null}}
    \cup {NullPatient,
          Patient(Undefined, Str(<<"1", "5", "0", "/", "9", "5">>), Num(1030), Num(700)),
          Patient(Str(<<>>), Str(<<"N", "/", "A">>), Null, Num(700)),
          Patient(IdP10, Str(<<"1", "3", "5", "/", "8", "5">>), Num(996), Num(400)),
          Patient(IdP2, Str(<<"1", "3", "5", "/", "8", "5">>), Num(995), Num(400))}

\* the records the source serves in a modelled run
RecordA == Patient(IdP2, Str(<<"1", "5", "0", "/", "9", "5">>), Num(1030), Num(700))
RecordB == Patient(IdP10, Str(<<"N", "/", "A">>), Num(980), Num(300))

\* the data of a page in a modelled run: no record, one, or two
PageData == {<<>>, <<RecordA>>, <<RecordB>>, <<RecordB, RecordA>>}

\* the fields the scoring functions are applied to on their own: the text on
\* either side of the "/" of a blood pressure reading, at the limits of the
\* stages, with a sign, white space or a letter, or empty
SystolicParts ==
    { <<>>, <<"1", "1", "9">>, <<"1", "2", "0">>, <<"1", "2", "9">>,
      <<"1", "3", "0">>, <<"1", "3", "9">>, <<"1", "4", "0">>,
      <<"-", "1", "2", "0">>, <<"+", "1", "4", "0">>, <<" ", "1", "3", "0">>,
      <<"1", "2", "0", "x">>, <<"x">> }

DiastolicParts ==
    { <<>>, <<"7", "9">>, <<"8", "0">>, <<"8", "9">>, <<"9", "0">>,
      <<"8", "0", "x">>, <<"-", "9", "0">>, <<"x">> }

\* readings "S/D", strings with no "/" or two, the empty string, and values
\* that are not strings
BPInputs ==
    {Str(s \o <<"/">> \o d) : s \in SystolicParts, d \in DiastolicParts}
    \cup {Str(<<>>), Str(<<"1", "2", "0">>), Str(<<"1", "2", "0", "/", "8", "0", "/", "1">>),
          Str(<<"N", "/", "A">>), Null, Undefined, Num(1200)}

\* temperatures on either side of 99.6 and of 101.0, as numbers and as text
TempInputs ==
    {Null, Undefined, Num(995), Num(996), Num(1009), Num(1010),
     Str(<<"1", "0", "1">>), Str(<<"x">>)}

\* ages on either side of 40 and of 65, as numbers and as text
AgeInputs ==
    {Null, Undefined, Num(390), Num(400), Num(650), Num(655), Num(660),
     Str(<<"6", "6">>), Str(<<"6", "5", "x">>), Str(<<"x">>)}

\* one record for every combination of those fields
ScoreRecords ==
    {Patient(IdP1, bp, t, a) : bp \in BPInputs, t \in TempInputs, a \in AgeInputs}

\* sequences over S of length 0..n
SeqsUpTo(S, n) == UNION {[1..k -> S] : k \in 0..n}

(***************************************************************************)
(* Requests and responses                                                  *)
(***************************************************************************)
PatientsUrl(n) == [path |-> "patients", page |-> n]
SubmitUrl == [path |-> "submit-assessment", page |-> 0]
NoUrl == [path |-> "", page |-> 0]

NoBody == [kind |-> "none"]

\* the page envelopes the source can answer with: data absent, empty or a list
\* of records; pagination.hasNext true, false or absent
Envelopes ==
    [kind : {"envelope"}, hasData : {TRUE}, data : PageData,
     hasNext : {"true", "false", "absent"}]
    \cup
    [kind : {"envelope"}, hasData : {FALSE}, data : {<<>>},
     hasNext : {"true", "false", "absent"}]

\* the bodies the submit endpoint can answer with
SubmissionResults ==
    {[kind |-> "null", success |-> FALSE, hasResults |-> FALSE]}
    \cup [kind : {"submission"}, success : BOOLEAN, hasResults : BOOLEAN]

Bodies(u) == IF u.path = "patients" THEN Envelopes ELSE SubmissionResults

TransportFailure == [kind |-> "neterr", status |-> 0, parsed |-> FALSE, body |-> NoBody]

\* what one fetch() can end in: a rejection, a response with an error status, a
\* 200 whose body json() cannot parse, or a 200 with a parsed body
Outcomes(u) ==
    {TransportFailure}
    \cup [kind : {"http"}, status : {200, 404, 429, 500, 503}, parsed : {FALSE},
          body : {NoBody}]
    \cup [kind : {"http"}, status : {200}, parsed : {TRUE}, body : Bodies(u)]

\* response.ok
ResponseOk(o) == o.kind = "http" /\ o.status >= 200 /\ o.status <= 299

\* [429, 500, 503].includes(response.status)
IsRetryableStatus(status) == status \in RetryableStatuses

RECURSIVE Pow2(_)
Pow2(n) == IF n <= 0 THEN 1 ELSE 2 * Pow2(n - 1)

\* INITIAL_RETRY_DELAY_MS * Math.pow(2, attempt - 1)
BackoffDelayLinear(k) == INITIAL_RETRY_DELAY_MS * k
BackoffDelay(k) == INITIAL_RETRY_DELAY_MS * Pow2(k - 1)

\* the loop condition: attempt <= retries
LoopContinuesOffByOne(k) == k <= MAX_RETRIES + 1
LoopContinues(k) == k <= MAX_RETRIES

\* the test of the catch block: attempt === retries
LastAttemptEarly(k) == k = MAX_RETRIES - 1
LastAttempt(k) == k = MAX_RETRIES

\* the history's name for an outcome
OutcomeName(o) ==
    IF o.kind = "neterr" THEN "transport"
    ELSE IF ResponseOk(o) THEN (IF o.parsed THEN "ok" ELSE "badjson")
    ELSE IF o.status \in {429, 500, 503} THEN "retryable"
    ELSE "other"

(***************************************************************************)
(* fetchWithRetry                                                          *)
(***************************************************************************)
\* an outcome without its body, as the history keeps it
Signature(o) == [kind |-> o.kind, status |-> o.status, parsed |-> o.parsed]

\* a call of fetchWithRetry(u, options): the loop is entered with attempt = 1
\* and the first fetch() is issued before the caller is suspended
CallFetchWithRetrySharedBudget(u) ==
    /\ url' = u
    /\ attempt' = IF attempt = 0 THEN 1 ELSE attempt
    /\ fPc' = IF LoopContinues(attempt') THEN "await" ELSE "failed"
    /\ reqs' = IF LoopContinues(attempt') THEN 1 ELSE 0
    /\ totalReqs' = IF LoopContinues(attempt') THEN totalReqs + 1 ELSE totalReqs
    /\ reqOrder' = IF LoopContinues(attempt') /\ (Len(reqOrder) = 0 \/ reqOrder[Len(reqOrder)] # u)
                   THEN Append(reqOrder, u) ELSE reqOrder
    /\ lastOutcome' = "none"
    /\ onlyRetryable' = TRUE
    /\ waits' = <<>>
    /\ received' = NoBody
    /\ outcomes' = <<>>
    /\ calls' = calls + 1
    /\ UNCHANGED <<result, logging>>
CallFetchWithRetry(u) ==
    /\ url' = u
    /\ attempt' = 1
    /\ fPc' = IF LoopContinues(1) THEN "await" ELSE "failed"
    /\ reqs' = IF LoopContinues(1) THEN 1 ELSE 0
    /\ totalReqs' = IF LoopContinues(1) THEN totalReqs + 1 ELSE totalReqs
    /\ reqOrder' = IF LoopContinues(1) /\ (Len(reqOrder) = 0 \/ reqOrder[Len(reqOrder)] # u)
                   THEN Append(reqOrder, u) ELSE reqOrder
    /\ lastOutcome' = "none"
    /\ onlyRetryable' = TRUE
    /\ waits' = <<>>
    /\ received' = NoBody
    /\ outcomes' = <<>>
    /\ calls' = calls + 1
    /\ UNCHANGED <<result, logging>>

\* the catch block: rethrow on the last attempt, else sleep and go round again
Catch ==
    IF LastAttempt(attempt)
    THEN /\ fPc' = "failed"
         /\ UNCHANGED waits
    ELSE /\ fPc' = "sleep"
         /\ waits' = Append(waits, BackoffDelay(attempt))

\* fetch() settles with outcome o; the call runs on to its next await, its
\* return or its throw
FetchSettled(o) ==
    /\ fPc = "await"
    /\ lastOutcome' = OutcomeName(o)
    /\ onlyRetryable' = (onlyRetryable /\ OutcomeName(o) \in {"retryable", "transport"})
    /\ received' = o.body
    /\ outcomes' = IF logging THEN Append(outcomes, Signature(o)) ELSE outcomes
    /\ IF ResponseOk(o)
       THEN IF o.parsed
            THEN /\ fPc' = "returned"          \* return await response.json()
                 /\ result' = o.body
                 /\ UNCHANGED waits
            ELSE /\ Catch                      \* response.json() rejects
                 /\ UNCHANGED result
       ELSE IF o.kind = "http" /\ IsRetryableStatus(o.status)
            THEN /\ fPc' = "sleep"
                 /\ waits' = Append(waits, BackoffDelay(attempt))
                 /\ UNCHANGED result
            ELSE /\ Catch                      \* the throw of line 41, or fetch() rejected
                 /\ UNCHANGED result
    /\ UNCHANGED <<url, attempt, reqs, runHist>>

FetchResponse ==
    /\ \E o \in Outcomes(url) : FetchSettled(o)
    /\ UNCHANGED <<pc, exitCode, failedAt>>
    /\ UNCHANGED pageVars
    /\ UNCHANGED classVars

\* the backoff sleep ends: attempt++, and either the next fetch() is issued or
\* the loop is left and "Exhausted all retries" is thrown
BackoffDone ==
    /\ fPc = "sleep"
    /\ attempt' = attempt + 1
    /\ IF LoopContinues(attempt + 1)
       THEN /\ fPc' = "await"
            /\ reqs' = reqs + 1
            /\ totalReqs' = totalReqs + 1
       ELSE /\ fPc' = "failed"
            /\ UNCHANGED <<reqs, totalReqs>>
    /\ UNCHANGED <<url, result, lastOutcome, onlyRetryable, waits, received, outcomes,
                   reqOrder, calls, logging>>
    /\ UNCHANGED <<pc, exitCode, failedAt>>
    /\ UNCHANGED pageVars
    /\ UNCHANGED classVars

(***************************************************************************)
(* fetchAllPatients, submitResults and main                                *)
(***************************************************************************)
Init ==
    /\ pc = "start"
    /\ page = 1
    /\ hasNext = TRUE
    /\ allPatients = <<>>
    /\ fPc = "idle"
    /\ url = NoUrl
    /\ attempt = 0
    /\ result = NoBody
    /\ idx = 1
    /\ highRiskPatients = <<>>
    /\ feverPatients = <<>>
    /\ dataQualityIssues = <<>>
    /\ submissionPayload = NoPayload
    /\ scored = NotScored
    /\ exitCode = 0 - 1
    /\ reqs = 0
    /\ lastOutcome = "none"
    /\ onlyRetryable = TRUE
    /\ waits = <<>>
    /\ totalReqs = 0
    /\ reqOrder = <<>>
    /\ pagesSeen = <<>>
    /\ pageWaits = <<>>
    /\ calls = 0
    /\ failedAt = "none"
    /\ received = NoBody
    /\ outcomes = <<>>
    /\ logging = FALSE

\* main() calls fetchAllPatients(), which asks for page 1
MainStart ==
    /\ pc = "start"
    /\ pc' = "page"
    /\ page' = 1
    /\ hasNext' = TRUE
    /\ allPatients' = <<>>
    /\ CallFetchWithRetry(PatientsUrl(1))
    /\ UNCHANGED <<pagesSeen, pageWaits, exitCode, failedAt>>
    /\ UNCHANGED classVars

\* responseData?.data?.length ? allPatients.concat(responseData.data) : allPatients
ConcatPagePrepends(all, responseData) ==
    IF responseData.hasData /\ Len(responseData.data) > 0
    THEN responseData.data \o all ELSE all
ConcatPage(all, responseData) ==
    IF responseData.hasData /\ Len(responseData.data) > 0
    THEN all \o responseData.data ELSE all

\* responseData?.pagination?.hasNext ?? false
NextFlagDefaultsTrue(responseData) == responseData.hasNext # "false"
NextFlagStopsOnEmpty(responseData) ==
    responseData.hasNext = "true" /\ responseData.hasData /\ Len(responseData.data) > 0
NextFlag(responseData) == responseData.hasNext = "true"

\* fetchWithRetry returned a page: the rest of the loop body, then either the
\* polite sleep or the return to main, which creates its three Sets
PageFetchedDelayGrows ==
    /\ pc = "page"
    /\ fPc = "returned"
    /\ allPatients' = ConcatPage(allPatients, result)
    /\ hasNext' = NextFlag(result)
    /\ page' = page + 1
    /\ pagesSeen' = Append(pagesSeen, [page |-> url.page, envelope |-> result])
    /\ IF NextFlag(result)
       THEN /\ pc' = "pageSleep"
            /\ pageWaits' = Append(pageWaits,
                                   [after |-> page, ms |-> REQUEST_DELAY_MS * page])
            /\ UNCHANGED classVars
       ELSE /\ pc' = "classify"
            /\ idx' = 1
            /\ highRiskPatients' = <<>>
            /\ feverPatients' = <<>>
            /\ dataQualityIssues' = <<>>
            /\ UNCHANGED <<pageWaits, submissionPayload, scored>>
    /\ fPc' = "idle"
    /\ UNCHANGED <<url, attempt, result, callHist, runHist, exitCode, failedAt>>
PageFetched ==
    /\ pc = "page"
    /\ fPc = "returned"
    /\ allPatients' = ConcatPage(allPatients, result)
    /\ hasNext' = NextFlag(result)
    /\ page' = page + 1
    /\ pagesSeen' = Append(pagesSeen, [page |-> url.page, envelope |-> result])
    /\ IF NextFlag(result)
       THEN /\ pc' = "pageSleep"
            /\ pageWaits' = Append(pageWaits, [after |-> page, ms |-> REQUEST_DELAY_MS])
            /\ UNCHANGED classVars
       ELSE /\ pc' = "classify"
            /\ idx' = 1
            /\ highRiskPatients' = <<>>
            /\ feverPatients' = <<>>
            /\ dataQualityIssues' = <<>>
            /\ UNCHANGED <<pageWaits, submissionPayload, scored>>
    /\ fPc' = "idle"
    /\ UNCHANGED <<url, attempt, result, callHist, runHist, exitCode, failedAt>>

\* sleep(REQUEST_DELAY_MS) ends and the loop asks for the next page
PageSleepDone ==
    /\ pc = "pageSleep"
    /\ page <= MaxPage
    /\ pc' = "page"
    /\ CallFetchWithRetry(PatientsUrl(page))
    /\ UNCHANGED <<exitCode, failedAt>>
    /\ UNCHANGED pageVars
    /\ UNCHANGED classVars

\* fetchWithRetry threw inside fetchAllPatients: main's catch exits with 1
PageFailedSwallowed ==
    /\ pc = "page"
    /\ fPc = "failed"
    /\ pc' = "classify"
    /\ fPc' = "idle"
    /\ UNCHANGED <<url, attempt, result, callHist, runHist, exitCode, failedAt>>
    /\ UNCHANGED pageVars
    /\ UNCHANGED classVars
PageFailed ==
    /\ pc = "page"
    /\ fPc = "failed"
    /\ pc' = "exit1"
    /\ exitCode' = 1
    /\ failedAt' = "page"
    /\ fPc' = "idle"
    /\ UNCHANGED <<url, attempt, result, callHist, runHist>>
    /\ UNCHANGED pageVars
    /\ UNCHANGED classVars

\* the three Sets after the loop body has run on allPatients[idx]
Classified ==
    ClassifyPatient(Sets(highRiskPatients, feverPatients, dataQualityIssues),
                    allPatients[idx])

\* one turn of the for..of loop over allPatients
ClassifyStep ==
    /\ pc = "classify"
    /\ idx <= Len(allPatients)
    /\ highRiskPatients' = Classified.highRisk
    /\ feverPatients' = Classified.fever
    /\ dataQualityIssues' = Classified.dataQuality
    /\ scored' = IF Skipped(allPatients[idx]) THEN scored
                 ELSE ScoreFields(allPatients[idx])
    /\ idx' = idx + 1
    /\ UNCHANGED <<pc, submissionPayload, exitCode, failedAt>>
    /\ UNCHANGED pageVars
    /\ UNCHANGED fetchVars

\* the loop is over: the payload is built and submitResults POSTs it
BuildAndSubmit ==
    /\ pc = "classify"
    /\ idx > Len(allPatients)
    /\ submissionPayload' =
           Payload(Sets(highRiskPatients, feverPatients, dataQualityIssues))
    /\ pc' = "submit"
    /\ CallFetchWithRetry(SubmitUrl)
    /\ UNCHANGED <<idx, highRiskPatients, feverPatients, dataQualityIssues, scored,
                   exitCode, failedAt>>
    /\ UNCHANGED pageVars

\* submitResults returned: main reads submissionResult.success and, when it is
\* set, submissionResult.results.score; a TypeError there lands in main's catch
SubmitReturnedStrict ==
    /\ pc = "submit"
    /\ fPc = "returned"
    /\ IF result.kind = "null" \/ ~result.success \/ ~result.hasResults
       THEN pc' = "exit1" /\ exitCode' = 1 /\ failedAt' = "result"
       ELSE pc' = "done" /\ exitCode' = 0 /\ UNCHANGED failedAt
    /\ fPc' = "idle"
    /\ UNCHANGED <<url, attempt, result, callHist, runHist>>
    /\ UNCHANGED pageVars
    /\ UNCHANGED classVars
SubmitReturned ==
    /\ pc = "submit"
    /\ fPc = "returned"
    /\ IF result.kind = "null" \/ (result.success /\ ~result.hasResults)
       THEN pc' = "exit1" /\ exitCode' = 1 /\ failedAt' = "result"
       ELSE pc' = "done" /\ exitCode' = 0 /\ UNCHANGED failedAt
    /\ fPc' = "idle"
    /\ UNCHANGED <<url, attempt, result, callHist, runHist>>
    /\ UNCHANGED pageVars
    /\ UNCHANGED classVars

\* fetchWithRetry threw inside submitResults: main's catch exits with 1
SubmitFailed ==
    /\ pc = "submit"
    /\ fPc = "failed"
    /\ pc' = "exit1"
    /\ exitCode' = 1
    /\ failedAt' = "submit"
    /\ fPc' = "idle"
    /\ UNCHANGED <<url, attempt, result, callHist, runHist>>
    /\ UNCHANGED pageVars
    /\ UNCHANGED classVars

Next ==
    \/ MainStart
    \/ FetchResponse
    \/ BackoffDone
    \/ PageFetched
    \/ PageSleepDone
    \/ PageFailed
    \/ ClassifyStep
    \/ BuildAndSubmit
    \/ SubmitReturned
    \/ SubmitFailed

\* a whole run of main()
Spec == Init /\ [][Next]_vars

\* the event loop resumes the suspended thread once the promise it awaits has
\* settled or its timer has fired: a request is answered or fails, a sleep ends,
\* and the caller of a finished fetchWithRetry runs on.  (The turns of main's
\* synchronous for..of loop are assumed nothing about.)
FairSpec ==
    /\ Spec
    /\ WF_vars(MainStart)
    /\ WF_vars(FetchResponse)
    /\ WF_vars(BackoffDone)
    /\ WF_vars(PageFetched)
    /\ WF_vars(PageSleepDone)
    /\ WF_vars(PageFailed)
    /\ WF_vars(BuildAndSubmit)
    /\ WF_vars(SubmitReturned)
    /\ WF_vars(SubmitFailed)

(***************************************************************************)
(* One call of fetchWithRetry, with the outcome of every attempt kept      *)
(***************************************************************************)
InitFetch ==
    /\ pc = "start"
    /\ page = 1
    /\ hasNext = TRUE
    /\ allPatients = <<>>
    /\ fPc = "idle"
    /\ url = NoUrl
    /\ attempt = 0
    /\ result = NoBody
    /\ idx = 1
    /\ highRiskPatients = <<>>
    /\ feverPatients = <<>>
    /\ dataQualityIssues = <<>>
    /\ submissionPayload = NoPayload
    /\ scored = NotScored
    /\ exitCode = 0 - 1
    /\ reqs = 0
    /\ lastOutcome = "none"
    /\ onlyRetryable = TRUE
    /\ waits = <<>>
    /\ totalReqs = 0
    /\ reqOrder = <<>>
    /\ pagesSeen = <<>>
    /\ pageWaits = <<>>
    /\ calls = 0
    /\ failedAt = "none"
    /\ received = NoBody
    /\ outcomes = <<>>
    /\ logging = TRUE

NextFetch ==
    \/ MainStart
    \/ FetchResponse
    \/ BackoffDone

SpecFetch == InitFetch /\ [][NextFetch]_vars

(***************************************************************************)
(* The classification of main(), from any list fetchAllPatients can return *)
(***************************************************************************)
ClassifyFromLists(lists) ==
    /\ allPatients \in lists
    /\ pc = "classify"
    /\ page = 2
    /\ hasNext = FALSE
    /\ fPc = "idle"
    /\ url = PatientsUrl(1)
    /\ attempt = 1
    /\ result = [kind |-> "envelope", hasData |-> TRUE, data |-> allPatients,
                 hasNext |-> "false"]
    /\ idx = 1
    /\ highRiskPatients = <<>>
    /\ feverPatients = <<>>
    /\ dataQualityIssues = <<>>
    /\ submissionPayload = NoPayload
    /\ scored = NotScored
    /\ exitCode = 0 - 1
    /\ reqs = 1
    /\ lastOutcome = "ok"
    /\ onlyRetryable = FALSE
    /\ waits = <<>>
    /\ totalReqs = 1
    /\ reqOrder = <<PatientsUrl(1)>>
    /\ pagesSeen = <<[page |-> 1, envelope |-> result]>>
    /\ pageWaits = <<>>
    /\ calls = 1
    /\ failedAt = "none"
    /\ received = result
    /\ outcomes = <<>>
    /\ logging = FALSE

\* from every list of up to MaxRecs of the records
ClassifyFrom(records) == ClassifyFromLists(SeqsUpTo(records, MaxRecs))

InitClassify == ClassifyFrom(Records)

NextClassify ==
    \/ ClassifyStep
    \/ BuildAndSubmit

SpecClassify == InitClassify /\ [][NextClassify]_vars

\* the same, from the lists whose rearrangements are compared
InitOrder == ClassifyFrom(OrderRecords)

SpecOrder == InitOrder /\ [][NextClassify]_vars

\* the scoring functions on their own: the loop over a list of one record
InitScore == ClassifyFromLists({<<rec>> : rec \in ScoreRecords})

SpecScore == InitScore /\ [][NextClassify]_vars

(***************************************************************************)
(* Properties of one fetchWithRetry call (checked under SpecFetch)         *)
(***************************************************************************)
IsOkOutcome(s) == s.kind = "http" /\ s.status = 200 /\ s.parsed
IsRetryableCause(s) ==
    \/ s.kind = "neterr"
    \/ s.kind = "http" /\ s.status \in {429, 500, 503}
IsOtherStatus(s) ==
    s.kind = "http" /\ s.status \notin {429, 500, 503} /\ ~(s.status >= 200 /\ s.status <= 299)

Http(status) == [kind |-> "http", status |-> status, parsed |-> FALSE]
Ok200 == [kind |-> "http", status |-> 200, parsed |-> TRUE]

\* C1: when an attempt receives a non-success status outside {429, 500, 503}, on
\* whichever attempt, the call fails at once and for good: that attempt is the
\* call's last one, and no backoff wait and no further request follow it.
C1_NonRetryableFailsAtOnce ==
    \A i \in 1..Len(outcomes) :
        IsOtherStatus(outcomes[i]) =>
            /\ i = Len(outcomes)
            /\ fPc = "failed"
            /\ reqs = i
            /\ Len(waits) = i - 1

\* C2: whatever the attempts receive, one call issues at most 5 requests, and
\* an OK response with a parsed body is the call's last attempt: the call has
\* returned that body and has issued no request after it.
C2_AtMostFiveAndStopAtOk ==
    /\ reqs <= 5
    /\ Len(outcomes) <= reqs
    /\ \A i \in 1..Len(outcomes) :
           IsOkOutcome(outcomes[i]) =>
               /\ i = Len(outcomes)
               /\ reqs = i
               /\ fPc = "returned"
               /\ result = received
               /\ result \in Bodies(url)

C2_Witness ==
    /\ Len(outcomes) = 5
    /\ IsOkOutcome(outcomes[5])
    /\ \E i \in 1..4 : IsOtherStatus(outcomes[i])
    /\ \E i \in 1..4 : outcomes[i].kind = "neterr"
    /\ fPc = "returned"
    /\ reqs = 5

AllRetryableCauses == \A i \in 1..Len(outcomes) : IsRetryableCause(outcomes[i])

\* C3: while every attempt so far failed with a retryable cause (429/500/503 or
\* a transport failure) the call never returns a value and fails only after
\* exactly 5 attempts; a retryable failure on attempt k < 5 leaves the call
\* sleeping, and the end of that sleep issues attempt k + 1.
C3_RetryableFailuresUseAllFive ==
    /\ [](AllRetryableCauses /\ Len(outcomes) > 0 =>
            /\ fPc # "returned"
            /\ (fPc = "failed" => reqs = 5 /\ Len(outcomes) = 5)
            /\ (Len(outcomes) < 5 =>
                    \/ fPc = "sleep" /\ reqs = Len(outcomes)
                    \/ fPc = "await" /\ reqs = Len(outcomes) + 1)
            /\ (Len(outcomes) = 5 => fPc \in {"sleep", "failed"}))
    /\ [][AllRetryableCauses /\ fPc = "sleep" =>
            IF Len(outcomes) < 5
            THEN fPc' = "await" /\ reqs' = reqs + 1 /\ attempt' = attempt + 1
            ELSE fPc' = "failed" /\ reqs' = reqs]_vars

C3_Witness ==
    /\ Len(outcomes) = 5
    /\ AllRetryableCauses
    /\ \E i \in 1..5 : outcomes[i].kind = "neterr"
    /\ \E i \in 1..5 : outcomes[i].kind = "http"
    /\ fPc = "failed"
    /\ reqs = 5

\* C4: the wait after failed attempt k is 1000 * 2^(k-1), that is 1000, 2000,
\* 4000, 8000 for k = 1..4, each the double of the one before; every attempt
\* k < 5 that fails with a retryable status or a transport failure is followed
\* by the k-th wait; and 503, 503, 200 returns on the third attempt after waits
\* of exactly 1000 and 2000.
C4_BackoffSchedule ==
    /\ \A k \in 1..Len(waits) :
           k <= 4 => waits[k] = <<1000, 2000, 4000, 8000>>[k]
    /\ \A k \in 2..Len(waits) : k <= 4 => waits[k] = 2 * waits[k - 1]
    /\ \A k \in 1..Len(outcomes) :
           k <= 4 /\ IsRetryableCause(outcomes[k]) => Len(waits) >= k
    /\ Len(waits) <= Len(outcomes)
    /\ (fPc = "sleep" => Len(waits) = attempt)
    /\ (outcomes = <<Http(503), Http(503), Ok200>> =>
            fPc = "returned" /\ reqs = 3 /\ waits = <<1000, 2000>>)

C4_Witness ==
    /\ outcomes = <<Http(503), Http(503), Ok200>>
    /\ fPc = "returned"
    /\ waits = <<1000, 2000>>

\* C19: every backoff wait of a call is followed by another request: a wait is
\* only ever in progress with an attempt left to make, and once the fifth
\* attempt has failed, by a retryable status or by a transport failure, the
\* call fails without a further wait (it has waited once less than it has
\* requested).
C19_EveryWaitIsFollowedByARequest ==
    /\ fPc = "sleep" => attempt < MAX_RETRIES
    /\ Len(waits) <= MAX_RETRIES - 1
    /\ fPc = "failed" => Len(waits) = reqs - 1

(***************************************************************************)
(* Properties of a whole run (checked under Spec and FairSpec)             *)
(***************************************************************************)
\* fetchAllPatients has returned its list to main
PaginatorReturned ==
    \/ pc \in {"classify", "submit", "done"}
    \/ pc = "exit1" /\ failedAt \in {"submit", "result"}

\* the records of the pages received, page after page
RECURSIVE PagesData(_)
PagesData(ps) ==
    IF Len(ps) = 0 THEN <<>>
    ELSE LET last == ps[Len(ps)].envelope
         IN PagesData(SubSeq(ps, 1, Len(ps) - 1)) \o
            (IF last.hasData THEN last.data ELSE <<>>)

LastPageSeen == pagesSeen[Len(pagesSeen)]

\* C5: when fetchAllPatients returns, it has received pages 1..N, with hasNext
\* true on pages 1..N-1 and false or absent on page N, and its list is the
\* records of those pages in page order and in their order within the page; a
\* page with hasNext true keeps the pagination going whatever its data is.
C5_ReturnsConcatenationOfPages ==
    /\ PaginatorReturned =>
           /\ Len(pagesSeen) >= 1
           /\ \A i \in 1..Len(pagesSeen) :
                  /\ pagesSeen[i].page = i
                  /\ (pagesSeen[i].envelope.hasNext = "true") = (i < Len(pagesSeen))
           /\ allPatients = PagesData(pagesSeen)
    /\ (Len(pagesSeen) >= 1 /\ LastPageSeen.envelope.hasNext = "true") =>
           /\ ~PaginatorReturned
           /\ allPatients = PagesData(pagesSeen)

C5_Witness ==
    /\ PaginatorReturned
    /\ Len(pagesSeen) = 2
    /\ pagesSeen[1].envelope.data = <<RecordB, RecordA>>
    /\ pagesSeen[2].envelope.data = <<RecordB>>
    /\ allPatients = <<RecordB, RecordA, RecordB>>

\* C6: pages are requested one at a time in the order 1, 2, 3, ...: the first
\* request is for page 1, page n+1 is requested only once page n has been
\* received with hasNext true, no page number is skipped, the request in flight
\* is for the page after those received, and no page is requested once a page
\* has come with hasNext false or absent.
C6_PagesRequestedInOrder ==
    /\ \A i \in 1..Len(reqOrder) :
           reqOrder[i].path = "patients" =>
               /\ reqOrder[i].page = i
               /\ i >= 2 =>
                      /\ Len(pagesSeen) >= i - 1
                      /\ pagesSeen[i - 1].page = i - 1
                      /\ pagesSeen[i - 1].envelope.hasNext = "true"
    /\ (pc = "page" /\ fPc \in {"await", "sleep", "returned", "failed"}) =>
           /\ url = PatientsUrl(Len(pagesSeen) + 1)
           /\ reqOrder[Len(reqOrder)] = url
    /\ \A i \in 1..Len(pagesSeen) :
           pagesSeen[i].envelope.hasNext # "true" =>
               \A j \in 1..Len(reqOrder) :
                   reqOrder[j].path = "patients" => reqOrder[j].page <= i

C6_Witness ==
    /\ reqOrder = <<PatientsUrl(1), PatientsUrl(2)>>
    /\ Len(pagesSeen) = 2
    /\ pagesSeen[2].envelope.hasNext = "absent"
    /\ totalReqs > 2
    /\ pc = "classify"

\* the paginator's loop is over, or the model's page bound stopped it
PaginatorStopped ==
    \/ PaginatorReturned
    \/ pc = "exit1"
    \/ pc = "pageSleep" /\ page > MaxPage

\* C7: fetchAllPatients has returned exactly when the latest page received has
\* hasNext false or absent, so it never returns while every page says hasNext
\* true (nothing caps the page number); and with every fetch completing, the
\* loop is over in the end unless every page up to the model's bound said
\* hasNext true.
C7_TerminatesIffHasNextFalse ==
    /\ [](PaginatorReturned <=>
            (Len(pagesSeen) >= 1 /\ LastPageSeen.envelope.hasNext # "true"))
    /\ []((pc = "pageSleep" /\ page > MaxPage) =>
            \A i \in 1..Len(pagesSeen) : pagesSeen[i].envelope.hasNext = "true")
    /\ [](pc = "pageSleep" => page = Len(pagesSeen) + 1)
    /\ <>PaginatorStopped

C7_Witness ==
    /\ pc = "classify"
    /\ Len(pagesSeen) = 2
    /\ pagesSeen[1].envelope.hasNext = "true"
    /\ pagesSeen[2].envelope.hasNext = "false"

\* C8: a page fetch or a submit that ends in a terminal error makes the run exit
\* with status 1 without another request; after a failed page fetch no submit
\* request is ever sent and nothing of the earlier pages is classified or put in
\* a payload; and whenever the submit request has been issued, the paginator has
\* returned and every record has been classified.
C8_ErrorsAbortAndSubmitComesLast ==
    /\ [][fPc = "failed" =>
            pc' = "exit1" /\ exitCode' = 1 /\ totalReqs' = totalReqs]_vars
    /\ [][pc = "exit1" => pc' = "exit1" /\ totalReqs' = totalReqs]_vars
    /\ [](failedAt = "page" =>
            /\ pc = "exit1" /\ exitCode = 1
            /\ \A i \in 1..Len(reqOrder) : reqOrder[i] # SubmitUrl
            /\ submissionPayload = NoPayload
            /\ highRiskPatients = <<>> /\ feverPatients = <<>> /\ dataQualityIssues = <<>>)
    /\ [](failedAt = "submit" => pc = "exit1" /\ exitCode = 1)
    /\ []((\E i \in 1..Len(reqOrder) : reqOrder[i] = SubmitUrl) =>
            /\ PaginatorReturned
            /\ idx = Len(allPatients) + 1
            /\ reqOrder[Len(reqOrder)] = SubmitUrl)
    /\ [](url = SubmitUrl /\ fPc = "await" => pc = "submit")

C8_Witness ==
    /\ failedAt = "page"
    /\ Len(pagesSeen) = 1
    /\ Len(pagesSeen[1].envelope.data) = 1
    /\ allPatients = pagesSeen[1].envelope.data
    /\ exitCode = 1
    /\ reqOrder = <<PatientsUrl(1), PatientsUrl(2)>>

\* the submit call has returned a body whose success flag is false
SubmissionRejected ==
    /\ pc = "submit"
    /\ fPc = "returned"
    /\ result.kind = "submission"
    /\ ~result.success

\* C18: the submitter does not retry by itself: once the call for the submit
\* url has started no other fetchWithRetry call starts, so submitResults runs
\* at most once; every POST is a request of that one call, which issues at most
\* 5; and a body with success = false is what main receives, after which no
\* request is sent and the run ends with exit status 0.
C18_SubmitNeverRetriesItself ==
    /\ [][url = SubmitUrl => calls' = calls /\ url' = url]_vars
    /\ [][url = SubmitUrl /\ totalReqs' # totalReqs =>
            totalReqs' = totalReqs + 1 /\ reqs' = reqs + 1]_vars
    /\ [](url = SubmitUrl => reqs <= 5 /\ calls = Len(pagesSeen) + 1)
    /\ [](url = SubmitUrl /\ fPc = "returned" => result = received)
    /\ [][SubmissionRejected =>
            /\ pc' = "done"
            /\ exitCode' = 0
            /\ failedAt' = "none"
            /\ result' = result
            /\ totalReqs' = totalReqs]_vars
    /\ [][pc = "done" => pc' = "done" /\ totalReqs' = totalReqs /\ exitCode' = 0]_vars

C18_Witness ==
    /\ pc = "done"
    /\ exitCode = 0
    /\ url = SubmitUrl
    /\ reqs = 5
    /\ result = [kind |-> "submission", success |-> FALSE, hasResults |-> FALSE]

\* C21: every fetchWithRetry call, for a page or for the submit, starts at
\* attempt 1 with no wait behind it, and its first backoff wait is 1000,
\* whatever the calls before it used up; a call issues at most 5 requests and
\* a run with P pages received has started at most P + 1 calls, so it has
\* issued at most 5 * (P + 1) requests.
C21_AttemptBudgetIsPerRequest ==
    /\ [][calls' # calls =>
            /\ calls' = calls + 1
            /\ attempt' = 1
            /\ reqs' = 1
            /\ waits' = <<>>
            /\ totalReqs' = totalReqs + 1]_vars
    /\ [][calls' = calls /\ totalReqs' # totalReqs =>
            totalReqs' = totalReqs + 1 /\ reqs' = reqs + 1 /\ attempt' = attempt + 1]_vars
    /\ [](fPc \in {"await", "sleep", "returned"} => attempt = reqs)
    /\ [](Len(waits) >= 1 => waits[1] = 1000)
    /\ [](reqs <= 5)
    /\ [](totalReqs <= 5 * calls)
    /\ [](calls <= Len(pagesSeen) + 1)
    /\ [](totalReqs <= 5 * (Len(pagesSeen) + 1))

C21_Witness ==
    /\ Len(pagesSeen) = 2
    /\ url = SubmitUrl
    /\ totalReqs = 15
    /\ calls = 3
    /\ waits = <<1000, 2000, 4000, 8000>>
    /\ pc = "done"

\* the pages received so far that said hasNext true
PagesWithNext == {i \in 1..Len(pagesSeen) : pagesSeen[i].envelope.hasNext = "true"}

\* C20: the k-th polite wait of a run is the one after page k, and it lasts 250
\* whatever k is and however many attempts the page took; there is one wait for
\* every page received with hasNext true and no other: none before page 1, none
\* after the page with hasNext false or absent; and page n+1 is requested only
\* with the n-th wait done.
C20_OneFixedWaitBetweenPages ==
    /\ \A k \in 1..Len(pageWaits) :
           pageWaits[k] = [after |-> k, ms |-> 250]
    /\ Len(pageWaits) = Cardinality(PagesWithNext)
    /\ PagesWithNext = 1..Len(pageWaits)
    /\ (Len(pagesSeen) = 0 => pageWaits = <<>>)
    /\ (pc = "pageSleep" =>
            Len(pageWaits) = Len(pagesSeen) /\ totalReqs >= Len(pagesSeen))
    /\ (pc = "page" => Len(pageWaits) = url.page - 1)
    /\ (PaginatorReturned => Len(pageWaits) = Len(pagesSeen) - 1)
    /\ \A i \in 1..Len(reqOrder) :
           reqOrder[i].path = "patients" => Len(pageWaits) >= reqOrder[i].page - 1

C20_Witness ==
    /\ pc = "classify"
    /\ Len(pagesSeen) = 2
    /\ pagesSeen[2].envelope.hasNext = "false"
    /\ pageWaits = <<[after |-> 1, ms |-> 250]>>
    /\ totalReqs = 10

(***************************************************************************)
(* Properties of the classification (checked under SpecClassify, SpecOrder)*)
(***************************************************************************)
NoDuplicates(a) == \A i, j \in 1..Len(a) : a[i] = a[j] => i = j

\* C9: whatever the records are, also when one identifier comes in several
\* records, the same or different ones, no identifier is twice in a category
\* Set or in one of the three arrays of the payload.
C9_IdentifierOncePerCategory ==
    /\ NoDuplicates(highRiskPatients)
    /\ NoDuplicates(feverPatients)
    /\ NoDuplicates(dataQualityIssues)
    /\ NoDuplicates(submissionPayload.high_risk_patients)
    /\ NoDuplicates(submissionPayload.fever_patients)
    /\ NoDuplicates(submissionPayload.data_quality_issues)

C9_Witness ==
    /\ pc = "submit"
    /\ Len(allPatients) = 3
    /\ allPatients[1] = allPatients[3]
    /\ allPatients[2].patient_id = allPatients[1].patient_id
    /\ allPatients[2] # allPatients[1]
    /\ submissionPayload.high_risk_patients = <<allPatients[1].patient_id>>
    /\ submissionPayload.fever_patients = <<allPatients[1].patient_id>>
    /\ submissionPayload.data_quality_issues = <<allPatients[1].patient_id>>

\* the payload main builds from a list of records
RECURSIVE ClassifyAll(_)
ClassifyAll(recs) ==
    IF Len(recs) = 0 THEN Sets(<<>>, <<>>, <<>>)
    ELSE ClassifyPatient(ClassifyAll(SubSeq(recs, 1, Len(recs) - 1)), recs[Len(recs)])

PayloadOf(recs) == Payload(ClassifyAll(recs))

\* the rearrangements of a list
Permutations(recs) ==
    {[i \in 1..Len(recs) |-> recs[f[i]]] :
        f \in {g \in [1..Len(recs) -> 1..Len(recs)] :
                  \A i, j \in 1..Len(recs) : g[i] = g[j] => i = j}}

\* strictly ascending in the order of string comparison
Ascending(a) == \A i \in 1..(Len(a) - 1) : StringLess(a[i].s, a[i + 1].s)

\* C10: each array of the payload is sorted ascending, and the payload is the
\* same for every rearrangement of the records classified.
C10_SortedAndOrderIndependent ==
    pc = "submit" =>
        /\ Ascending(submissionPayload.high_risk_patients)
        /\ Ascending(submissionPayload.fever_patients)
        /\ Ascending(submissionPayload.data_quality_issues)
        /\ \A q \in Permutations(allPatients) : PayloadOf(q) = submissionPayload

C10_Witness ==
    /\ pc = "submit"
    /\ Len(allPatients) = 3
    /\ allPatients[1].patient_id = IdP2
    /\ allPatients[2].patient_id = IdP10
    /\ allPatients[3].patient_id = IdP1
    /\ submissionPayload.high_risk_patients = <<IdP1, IdP10, IdP2>>
    /\ dataQualityIssues = <<IdP2, IdP1>>
    /\ submissionPayload.data_quality_issues = <<IdP1, IdP2>>

\* the record carries the usable identifier id
Carries(rec, id) == ~rec.isNull /\ rec.patient_id = id

\* at least one of the record's three ScoreResults is invalid
HasInvalidField(rec) ==
    \/ calculateBPRisk(rec.blood_pressure).isInvalid
    \/ calculateTempRisk(rec.temperature).isInvalid
    \/ calculateAgeRisk(rec.age).isInvalid

\* the score of a field, an invalid field counting 0
ScoreOrZero(r) == IF r.isInvalid THEN 0 ELSE r.score

TotalOf(rec) ==
    ScoreOrZero(calculateBPRisk(rec.blood_pressure))
    + ScoreOrZero(calculateTempRisk(rec.temperature))
    + ScoreOrZero(calculateAgeRisk(rec.age))

\* some record the loop has been over carries id and satisfies P
SomeClassified(id, P(_)) ==
    \E i \in 1..(idx - 1) : Carries(allPatients[i], id) /\ P(allPatients[i])

IsHighRisk(rec) == TotalOf(rec) >= 4

\* C11: a usable identifier is in data_quality_issues exactly when a record
\* carrying it has an invalid blood pressure, temperature or age ScoreResult,
\* and in high_risk_patients exactly when a record carrying it has a sum of the
\* three scores (an invalid field counting 0) of 4 or more; a record with an
\* invalid field is high-risk all the same when its other fields reach 4.
C11_DataQualityAndHighRiskMembership ==
    pc = "submit" =>
        \A id \in Ids :
            /\ (id \in Range(dataQualityIssues)) = SomeClassified(id, HasInvalidField)
            /\ (id \in Range(highRiskPatients)) = SomeClassified(id, IsHighRisk)
            /\ (id \in Range(submissionPayload.data_quality_issues))
                   = SomeClassified(id, HasInvalidField)
            /\ (id \in Range(submissionPayload.high_risk_patients))
                   = SomeClassified(id, IsHighRisk)

C11_Witness ==
    /\ pc = "submit"
    /\ allPatients =
           <<Patient(IdP1, Str(<<"1", "5", "0", "/", "9", "5">>), Null, Num(700)),
             Patient(IdP10, Str(<<"1", "3", "5", "/", "8", "5">>), Num(996), Num(400)),
             Patient(IdP2, Str(<<"1", "3", "5", "/", "8", "5">>), Num(995), Num(400))>>
    /\ submissionPayload.high_risk_patients = <<IdP1, IdP10>>
    /\ submissionPayload.data_quality_issues = <<IdP1>>

\* the record is null, or its patient_id is absent, null or the empty string
LacksUsableId(rec) ==
    \/ rec.isNull
    \/ rec.patient_id.t \in {"undefined", "null"}
    \/ rec.patient_id.t = "string" /\ Len(rec.patient_id.s) = 0

\* the record has a valid temperature whose parsed value is at least 99.6
HasFever(rec) ==
    /\ ~calculateTempRisk(rec.temperature).isInvalid
    /\ parseFloat(rec.temperature).val >= 996

EmptySets == Sets(<<>>, <<>>, <<>>)

\* C12: an identifier is in fever_patients exactly when a record carrying it
\* has a valid temperature whose parsed value is at least 99.6, which is exactly
\* when calculateTempRisk scores that record 1 or more; whether a record counts
\* for fever does not change with its blood pressure or its age (checked on
\* the last record of the list).
C12_FeverMembership ==
    pc = "submit" =>
    /\ \A id \in Ids :
           /\ (id \in Range(feverPatients)) = SomeClassified(id, HasFever)
           /\ (id \in Range(submissionPayload.fever_patients))
                  = SomeClassified(id, HasFever)
    /\ idx > 1 =>
           LET rec == allPatients[idx - 1]
           IN ~LacksUsableId(rec) =>
                  /\ HasFever(rec) = (calculateTempRisk(rec.temperature).score >= 1)
                  /\ \A f \in Profiles :
                         ClassifyPatient(EmptySets,
                             Patient(rec.patient_id, f[1], rec.temperature, f[3])).fever
                         = ClassifyPatient(EmptySets, rec).fever

C12_Witness ==
    /\ pc = "submit"
    /\ allPatients =
           <<Patient(IdP1, Str(<<"1", "1", "0", "/", "7", "0">>),
                     Str(<<"9", "9", ".", "6">>), Str(<<"3", "0">>)),
             Patient(IdP2, Str(<<"1", "3", "5", "/", "8", "5">>), Num(995), Num(400)),
             Patient(IdP10, Str(<<"N", "/", "A">>), Num(980), Num(300))>>
    /\ submissionPayload.fever_patients = <<IdP1>>
    /\ submissionPayload.high_risk_patients = <<>>

\* the list without the records that have no usable identifier
RECURSIVE Usable(_)
Usable(recs) ==
    IF Len(recs) = 0 THEN <<>>
    ELSE IF LacksUsableId(recs[1]) THEN Usable(Tail(recs))
    ELSE <<recs[1]>> \o Usable(Tail(recs))

\* C13: a null record and a record without a usable patient_id go into none of
\* the three Sets and do not abort the run: the records after it are classified
\* as before, and the Sets and the payload are those of the list with such
\* records taken out.
C13_RecordsWithoutIdAreSkipped ==
    /\ pc \in {"classify", "submit"}
    /\ exitCode = 0 - 1
    /\ failedAt = "none"
    /\ \A x \in Range(highRiskPatients) \cup Range(feverPatients)
                \cup Range(dataQualityIssues) : x \in Ids
    /\ pc = "submit" =>
           /\ idx = Len(allPatients) + 1
           /\ Sets(highRiskPatients, feverPatients, dataQualityIssues)
                  = ClassifyAll(Usable(allPatients))
           /\ submissionPayload = PayloadOf(Usable(allPatients))

C13_Witness ==
    /\ pc = "submit"
    /\ Len(allPatients) = 3
    /\ allPatients[1] =
           Patient(Undefined, Str(<<"1", "5", "0", "/", "9", "5">>), Num(1030), Num(700))
    /\ allPatients[2] = NullPatient
    /\ allPatients[3] = Patient(IdP1, Str(<<"N", "/", "A">>), Num(980), Num(300))
    /\ submissionPayload.high_risk_patients = <<>>
    /\ submissionPayload.data_quality_issues = <<IdP1>>

(***************************************************************************)
(* Properties of the scoring functions (checked under SpecScore)           *)
(***************************************************************************)
\* the loop has scored the one record of the list
RecordScored == idx > 1

AllDigits(s) == Len(s) > 0 /\ \A i \in 1..Len(s) : s[i] \in Digits

\* the string matches ^\d+/\d+$
MatchesReading(s) ==
    \E k \in 1..Len(s) :
        /\ s[k] = "/"
        /\ AllDigits(SubSeq(s, 1, k - 1))
        /\ AllDigits(SubSeq(s, k + 1, Len(s)))

\* C14: for every blood pressure string that does not match ^\d+/\d+$ (a
\* number followed by other characters, a sign, an empty part),
\* calculateBPRisk returns isInvalid = true with score 0.
C14_NonMatchingReadingIsInvalid ==
    RecordScored =>
        LET bp == allPatients[1].blood_pressure
        IN (bp.t = "string" /\ ~MatchesReading(bp.s)) =>
               scored.bpResult = ScoreResult(0, TRUE)

\* the score of a reading by the rules in their order of precedence
StageOf(S, D) ==
    IF S >= 140 \/ D >= 90 THEN 3
    ELSE IF S \in 130..139 \/ D \in 80..89 THEN 2
    ELSE IF S \in 120..129 /\ D < 80 THEN 1
    ELSE 0

\* C15: a valid reading S/D is scored by the first rule that matches: 3 if
\* S >= 140 or D >= 90, else 2 if S in 130..139 or D in 80..89, else 1 if S in
\* 120..129 and D < 80, else 0, always with isInvalid = false; so it scores 0
\* exactly when S < 120 and D < 80.  (Checked for the readings that match
\* ^\d+/\d+$, and for whatever else calculateBPRisk takes as valid, with S and
\* D the numbers it parsed.)
C15_ReadingScoredByFirstMatch ==
    RecordScored =>
        LET bp == allPatients[1].blood_pressure
            parts == split(bp.s, "/")
        IN /\ (bp.t = "string" /\ MatchesReading(bp.s)) =>
                  LET S == DigitsValue(parts[1])
                      D == DigitsValue(parts[2])
                  IN /\ scored.bpResult = ScoreResult(StageOf(S, D), FALSE)
                     /\ (scored.bpResult.score = 0) = (S < 120 /\ D < 80)
           /\ ~scored.bpResult.isInvalid =>
                  /\ bp.t = "string"
                  /\ Len(parts) = 2
                  /\ LET S == parseIntString(parts[1]).val
                         D == parseIntString(parts[2]).val
                     IN /\ scored.bpResult.score = StageOf(S, D)
                        /\ (scored.bpResult.score = 0) = (S < 120 /\ D < 80)

C15_Witness ==
    /\ RecordScored
    /\ allPatients[1].blood_pressure = Str(<<"1", "3", "0", "/", "9", "0">>)
    /\ scored.bpResult = ScoreResult(3, FALSE)

\* the score of an age
AgeGroup(v) == IF v > 65 THEN 2 ELSE IF v >= 40 THEN 1 ELSE 0

\* C16: calculateAgeRisk returns score 0 with isInvalid = true for null, for an
\* absent value and for what parseInt makes no integer of; otherwise, with v
\* the integer parsed, score 2 if v > 65, 1 if 40 <= v <= 65, 0 if v < 40, with
\* isInvalid = false; 66 gives 2, 65 gives 1, 40 gives 1 and 39 gives 0.
C16_AgeGroups ==
    RecordScored =>
        LET a == allPatients[1].age
        IN /\ IF a.t \in {"null", "undefined"} \/ parseInt(a).isNaN
              THEN scored.ageResult = ScoreResult(0, TRUE)
              ELSE scored.ageResult = ScoreResult(AgeGroup(parseInt(a).val), FALSE)
           /\ (a.t = "number" /\ a.n % 10 = 0) =>
                  scored.ageResult = ScoreResult(AgeGroup(a.n \div 10), FALSE)
           /\ (a.t = "string" /\ AllDigits(a.s)) =>
                  scored.ageResult = ScoreResult(AgeGroup(DigitsValue(a.s)), FALSE)
           /\ (a = Num(660) => scored.ageResult.score = 2)
           /\ (a = Num(650) => scored.ageResult.score = 1)
           /\ (a = Num(400) => scored.ageResult.score = 1)
           /\ (a = Num(390) => scored.ageResult.score = 0)

C16_Witness ==
    /\ RecordScored
    /\ allPatients[1].age = Num(650)
    /\ scored.ageResult = ScoreResult(1, FALSE)

\* C17: whatever the fields are, each scoring function returns a ScoreResult
\* and the loop goes on; an invalid result has score 0; the score is in 0..3
\* for blood pressure and in 0..2 for temperature and for age, so the total of
\* a record is in 0..7.
C17_ScoreResultsAreBounded ==
    /\ pc \in {"classify", "submit"}
    /\ exitCode = 0 - 1
    /\ RecordScored =>
           /\ scored.bpResult \in [score : 0..3, isInvalid : BOOLEAN]
           /\ scored.tempResult \in [score : 0..2, isInvalid : BOOLEAN]
           /\ scored.ageResult \in [score : 0..2, isInvalid : BOOLEAN]
           /\ \A r \in {scored.bpResult, scored.tempResult, scored.ageResult} :
                  r.isInvalid => r.score = 0
           /\ scored.totalRiskScore
                  = scored.bpResult.score + scored.tempResult.score + scored.ageResult.score
           /\ scored.totalRiskScore \in 0..7

C17_Witness ==
    /\ RecordScored
    /\ allPatients[1].blood_pressure = Str(<<"1", "4", "0", "/", "9", "0">>)
    /\ scored.totalRiskScore = 7
    /\ scored.tempResult.score = 2
    /\ scored.ageResult.score = 2

\* the systolic and the diastolic number calculateBPRisk reads in a string
SystolicOf(bp) == parseIntString(split(bp.s, "/")[1]).val
DiastolicOf(bp) == parseIntString(split(bp.s, "/")[2]).val

\* C22: calculateBPRisk is monotone on valid readings: when the reading just
\* scored is S/D and another valid reading is S'/D' with S <= S' and D <= D',
\* the score of S'/D' is not lower than the score of S/D.
C22_BPRiskIsMonotone ==
    (RecordScored /\ pc = "classify" /\ ~scored.bpResult.isInvalid) =>
        LET bp == allPatients[1].blood_pressure
        IN \A other \in BPInputs :
               LET r == calculateBPRisk(other)
               IN (/\ ~r.isInvalid
                   /\ SystolicOf(bp) <= SystolicOf(other)
                   /\ DiastolicOf(bp) <= DiastolicOf(other))
                      => scored.bpResult.score <= r.score

C22_Witness ==
    /\ RecordScored
    /\ allPatients[1].blood_pressure = Str(<<"1", "2", "9", "/", "7", "9">>)
    /\ scored.bpResult = ScoreResult(1, FALSE)
    /\ calculateBPRisk(Str(<<"1", "3", "0", "/", "7", "9">>)) = ScoreResult(2, FALSE)
    /\ calculateBPRisk(Str(<<"1", "2", "9", "/", "8", "0">>)) = ScoreResult(2, FALSE)
    /\ calculateBPRisk(Str(<<"1", "4", "0", "/", "9", "0">>)) = ScoreResult(3, FALSE)

====
